---- MODULE Spec2Model ----
(***************************************************************************)
(* Model of product_scraper: the retrying Fetcher (fetcher.py) and the     *)
(* run_pipeline orchestrator (cli.py) with the parsers it drives.          *)
(*                                                                         *)
(* An optional number is <<>> (None) or <<n>>; a selector is a sequence   *)
(* of pieces, NoneSel when absent; a string value is a record (NoneStr,    *)
(* EmptyStr, BlankStr, Url).  Seconds are whole numbers and                *)
(* random.uniform(0, j) is a choice in 0..j.                               *)
(***************************************************************************)
EXTENDS Integers, Sequences, FiniteSets, TLC

VARIABLES
    \* ---- Fetcher (fetcher.py) ----
    fetcher,      \* the constructed Fetcher's fields, or Unbuilt
    get_pc,       \* position of Fetcher.get: "idle" | "loop" | "returned" | "raised"
    get_url,      \* argument of the running get()
    attempt,      \* loop variable of get(); 0 before the first iteration
    last_status,  \* local last_status of get(): <<>> (None) or <<code>>
    get_result,   \* what get() returned or raised
    log,          \* session.get calls and time.sleep calls of this get(), in order
    \* ---- run_pipeline (cli.py) ----
    target_config, limit, dry_run, settings,
    pc,           \* position of run_pipeline
    exit_code,    \* <<>> while running, <<0>> or <<1>> once returned
    stderr,       \* messages printed to stderr, in order
    product_urls, \* links kept after the limit (detail-follow mode)
    idx,          \* index of the link being processed
    records,      \* the accumulating record sequence
    trace,        \* fetcher.get calls and politeness sleeps of the run, in order
    outcomes,     \* how each fetcher.get call of the run ended: "returned" | "raised"
    reports,      \* validation reports printed to stdout
    exported,     \* record sequences handed to export_to_csv
    \* ---- a parser called on its own (parser.py) ----
    parse_call,   \* the function and its arguments
    parse_result  \* pending, or what the call returned, or that it raised

fetch_vars == <<fetcher, get_pc, get_url, attempt, last_status, get_result, log>>
pipe_vars == <<target_config, limit, dry_run, settings, pc, exit_code, stderr,
               product_urls, idx, records, trace, outcomes, reports, exported>>
parse_vars == <<parse_call, parse_result>>
vars == <<fetcher, get_pc, get_url, attempt, last_status, get_result, log,
          target_config, limit, dry_run, settings, pc, exit_code, stderr,
          product_urls, idx, records, trace, outcomes, reports, exported,
          parse_call, parse_result>>

----------------------------------------------------------------------------
\* Bounds of the model.

\* largest max_retries a stand-alone Fetcher is built with
MaxRetries == 3
\* largest retry_jitter_seconds
MaxJitter == 1
\* number of elements a page holds at most
MaxLinks == 2

NoneV == "None"

RECURSIVE Pow(_, _)
Pow(b, e) == IF e <= 0 THEN 1 ELSE b * Pow(b, e - 1)

\* All sequences over S of length at most n.
SeqsUpTo(S, n) == UNION {[1..k -> S] : k \in 0..n}

----------------------------------------------------------------------------
\* The environment: what session.get can do.

\* Status codes a server may answer with (the edges of every range the
\* code tests, and the codes the tests use).
Statuses == {200, 399, 400, 404, 429, 499, 500, 599, 600}
\* The codes the servers of a pipeline run answer with: one of each class the
\* fetcher tells apart (returned, failed at once, retried).
RunStatuses == {200, 404, 500}

\* Values: None, the empty string, a whitespace-only string, a URL reference
\* or other text, or a list of strings (what BeautifulSoup gives for a
\* multi-valued attribute such as class).  A reference with host "" is
\* relative (any plain text is one); its path is segs, joined by "/".  pad
\* says that whitespace surrounds the text.
NoneStr == [kind |-> "none", host |-> "", segs |-> <<>>, pad |-> FALSE]
EmptyStr == [kind |-> "empty", host |-> "", segs |-> <<>>, pad |-> FALSE]
BlankStr == [kind |-> "blank", host |-> "", segs |-> <<>>, pad |-> FALSE]
Url(h, p) == [kind |-> "url", host |-> h, segs |-> p, pad |-> FALSE]
Padded(s) == [s EXCEPT !.pad = TRUE]
ListValue(items) == [kind |-> "list", host |-> "", segs |-> items, pad |-> FALSE]

\* Python truthiness: None, "" and [] are falsy.
Truthy(s) == s.kind \notin {"none", "empty"} /\ (s.kind = "list" => s.segs # <<>>)
\* str.strip()
Strip(s) == IF s.kind = "blank" THEN EmptyStr ELSE [s EXCEPT !.pad = FALSE]
\* isinstance(value, str)
IsStr(s) == s.kind \notin {"none", "list"}

ExampleHost == "https://example.com"
ListUrl == Url(ExampleHost, <<"products">>)
RelLink == Url("", <<"product", "1">>)
AbsLink == Url(ExampleHost, <<"product", "2">>)

\* a relative reference whose text begins with "HTTP"
HttpRelLink == Url("", <<"HTTP-guide">>)

\* href values an element of a page may carry: blank, relative, absolute, and
\* relative with the first letters of an absolute one.
Hrefs == {BlankStr, RelLink, AbsLink, HttpRelLink}

\* Ordered mappings (dict): sequences of entries with distinct keys.
Entry(k, v) == [key |-> k, value |-> v]
DictKeys(d) == {d[i].key : i \in DOMAIN d}
DictHas(d, k) == \E i \in DOMAIN d : d[i].key = k
DictGet(d, k, default) ==
    IF DictHas(d, k) THEN d[CHOOSE i \in DOMAIN d : d[i].key = k].value ELSE default
\* d[k] = v
DictSet(d, k, v) ==
    IF DictHas(d, k)
    THEN [i \in DOMAIN d |-> IF d[i].key = k THEN Entry(k, v) ELSE d[i]]
    ELSE Append(d, Entry(k, v))

\* Selector strings are sequences of pieces: words of a CSS selector or of an
\* attribute name, and the marks "@", "::attr(", ")" and "::text" that
\* _parse_selector_spec looks for; the string is their concatenation.  No
\* piece holds a mark of another, so a test on the string is a test on the
\* pieces.  An absent (None) selector is NoneSel; "" is <<>>.
NoneSel == <<NoneV>>
LinkSel == <<"a.product-link">>
ItemSel == <<".item">>
BuySel == <<"a.buy">>
BadSel == <<"a[">>
GoodSpec == <<"a.buy", "@", "href">>
BadSpec == <<"a[", "@", "href">>
HrefAttr == <<"href">>
SrcAttr == <<"src">>

\* An element of a parsed document: the CSS selectors that match it, its
\* attributes, the text directly inside it and its child elements.
Element(sels, attrs, text, children) ==
    [sels |-> sels, attrs |-> attrs, text |-> text, children |-> children]

\* <a class="buy" href=h>, and the product block around it: an element the
\* link selector and the item selector match, with the same href.
HrefAttrs(h) == IF h = NoneStr THEN <<>> ELSE <<Entry(HrefAttr, h)>>
Buy(h) == Element({BuySel}, HrefAttrs(h), EmptyStr, <<>>)
Product(h) == Element({LinkSel, ItemSel}, HrefAttrs(h), EmptyStr, <<Buy(h)>>)
PageOf(hs) == [i \in DOMAIN hs |-> Product(hs[i])]

\* A page body: the top-level elements of the document, in document order.
\* The list URL serves a page of up to MaxLinks product blocks, any other URL
\* a page of at most one.
Bodies(u) == {PageOf(hs) : hs \in SeqsUpTo(Hrefs, IF u = ListUrl THEN MaxLinks ELSE 1)}

ExcOutcome == [kind |-> "exc", status |-> 0, text |-> <<>>]
ResponseOutcome(s, t) == [kind |-> "response", status |-> s, text |-> t]
\* What one session.get call may do: raise a
\* requests.exceptions.RequestException, or give a response.  Error pages
\* (400..599) come with the empty body.  For a URL without a scheme and a
\* host the call can only raise (requests.exceptions.MissingSchema).
ErrorPage(s) == 400 <= s /\ s <= 599
Served == IF pc = "standalone" THEN Statuses ELSE RunStatuses
Outcomes(u) ==
    IF u.host = "" THEN {ExcOutcome}
    ELSE {ExcOutcome}
         \cup {ResponseOutcome(s, <<>>) : s \in {c \in Served : ErrorPage(c)}}
         \cup {ResponseOutcome(s, t) : s \in {c \in Served : ~ErrorPage(c)}, t \in Bodies(u)}

\* Entries of the log of one get(): a session.get call with its outcome, or
\* a time.sleep call with its duration.
RequestEvent(o) ==
    [ev |-> "request", kind |-> o.kind, status |-> o.status, text |-> o.text, secs |-> 0]
SleepEvent(d) == [ev |-> "sleep", kind |-> "", status |-> 0, text |-> <<>>, secs |-> d]

----------------------------------------------------------------------------
\* Fetcher (fetcher.py)

Unbuilt == [built |-> FALSE, max_retries |-> 0, retry_backoff_seconds |-> 0,
            retry_backoff_multiplier |-> 0, retry_jitter_seconds |-> 0]

\* Fetcher.__init__
NewFetcher(mr, base, mult, jit) ==
    [built |-> TRUE, max_retries |-> mr, retry_backoff_seconds |-> base,
     retry_backoff_multiplier |-> mult, retry_jitter_seconds |-> jit]

\* A variant that forgets 429.
Mut_ShouldRetryStatus(status_code) == 500 <= status_code /\ status_code < 600

\* Fetcher._should_retry_status
ShouldRetryStatus(status_code) ==
    status_code = 429 \/ (500 <= status_code /\ status_code < 600)

\* A variant whose range starts one too high.
Mut_IsClientError(status_code) == 400 < status_code /\ status_code < 500

\* The 4xx test of get() (reached only when the status is not retried).
IsClientError(status_code) == 400 <= status_code /\ status_code < 500

\* A variant that gives up one attempt early.
Mut_IsLastAttempt(f, att) == att + 1 >= f.max_retries

\* "attempt == self.max_retries"
IsLastAttempt(f, att) == att = f.max_retries

\* The values random.uniform(0, retry_jitter_seconds) may give; drawn only
\* when retry_jitter_seconds > 0.
JitterDraws(f) ==
    IF f.retry_jitter_seconds > 0 THEN 0..f.retry_jitter_seconds ELSE {0}

\* A variant whose exponent is the attempt number.
Mut_SleepBackoff(f, att, jitter) ==
    IF f.retry_backoff_seconds <= 0
    THEN <<>>
    ELSE <<SleepEvent(f.retry_backoff_seconds * Pow(f.retry_backoff_multiplier, att)
                      + (IF f.retry_jitter_seconds > 0 THEN jitter ELSE 0))>>

\* Fetcher._sleep_backoff: the time.sleep calls it makes (none or one).
SleepBackoff(f, att, jitter) ==
    IF f.retry_backoff_seconds <= 0
    THEN <<>>
    ELSE <<SleepEvent(f.retry_backoff_seconds * Pow(f.retry_backoff_multiplier, att - 1)
                      + (IF f.retry_jitter_seconds > 0 THEN jitter ELSE 0))>>

NoResult == [kind |-> "none", text |-> <<>>, url |-> NoneStr, cause |-> "", status |-> <<>>]
\* return response.text
TextResult(t) == [kind |-> "text", text |-> t, url |-> NoneStr, cause |-> "", status |-> <<>>]
\* FetchError(f"Failed to fetch {url}: {exc}")
ExcError(u) == [kind |-> "error", text |-> <<>>, url |-> u, cause |-> "exc", status |-> <<>>]
\* FetchError(f"Failed to fetch {url}: received status {status}")
StatusError(u, st) == [kind |-> "error", text |-> <<>>, url |-> u, cause |-> "status", status |-> st]

\* Entering fetcher.get(u): the locals before the loop.
GetCall(u) ==
    /\ get_pc' = "loop"
    /\ get_url' = u
    /\ attempt' = 0
    /\ last_status' = <<>>
    /\ get_result' = NoResult
    /\ log' = <<>>

\* The branch of one loop iteration that "continue"s: the sleep, then the
\* next iteration.
RetryLater(o, jitter) ==
    /\ get_pc' = "loop"
    /\ get_result' = get_result
    /\ log' = log \o <<RequestEvent(o)>> \o SleepBackoff(fetcher, attempt + 1, jitter)

\* The branches of one loop iteration that leave get().
Leave(o, how, res) ==
    /\ get_pc' = how
    /\ get_result' = res
    /\ log' = log \o <<RequestEvent(o)>>

\* One iteration of "for attempt in range(1, self.max_retries + 1)".
GetAttemptBody(o, jitter) ==
    /\ attempt' = attempt + 1
    /\ IF o.kind = "exc"
       THEN /\ last_status' = last_status
            /\ IF IsLastAttempt(fetcher, attempt + 1)
               THEN Leave(o, "raised", ExcError(get_url))
               ELSE RetryLater(o, jitter)
       ELSE /\ last_status' = <<o.status>>
            /\ IF ShouldRetryStatus(o.status)
               THEN IF IsLastAttempt(fetcher, attempt + 1)
                    THEN Leave(o, "raised", StatusError(get_url, <<o.status>>))
                    ELSE RetryLater(o, jitter)
               ELSE IF IsClientError(o.status)
                    THEN Leave(o, "raised", StatusError(get_url, <<o.status>>))
                    ELSE Leave(o, "returned", TextResult(o.text))

\* A variant whose loop body runs at least once.
Mut_GetAttempt ==
    /\ get_pc = "loop"
    /\ attempt < fetcher.max_retries \/ attempt = 0
    /\ \E o \in Outcomes(get_url) : \E jitter \in JitterDraws(fetcher) :
          GetAttemptBody(o, jitter)
    /\ UNCHANGED <<fetcher, get_url>>
    /\ UNCHANGED pipe_vars
    /\ UNCHANGED parse_vars

GetAttempt ==
    /\ get_pc = "loop"
    /\ attempt < fetcher.max_retries
    /\ \E o \in Outcomes(get_url) : \E jitter \in JitterDraws(fetcher) :
          GetAttemptBody(o, jitter)
    /\ UNCHANGED <<fetcher, get_url>>
    /\ UNCHANGED pipe_vars
    /\ UNCHANGED parse_vars

\* The range is used up without a return or a raise: the raise after the loop.
GetFallThrough ==
    /\ get_pc = "loop"
    /\ attempt >= fetcher.max_retries
    /\ get_pc' = "raised"
    /\ get_result' = StatusError(get_url, last_status)
    /\ UNCHANGED <<fetcher, get_url, attempt, last_status, log>>
    /\ UNCHANGED pipe_vars
    /\ UNCHANGED parse_vars

----------------------------------------------------------------------------
\* Parsers (parser.py)

\* list(dict.fromkeys(seq)): first occurrences, in order.
RECURSIVE DedupKeys(_, _)
DedupKeys(seq, seen) ==
    IF seq = <<>> THEN <<>>
    ELSE IF Head(seq) \in seen THEN DedupKeys(Tail(seq), seen)
    ELSE <<Head(seq)>> \o DedupKeys(Tail(seq), seen \cup {Head(seq)})

\* A selector that is not None and not "".
HasSelector(sel) == sel \notin {NoneSel, <<>>}

\* The pieces no valid CSS selector holds.
InvalidCss == {"a[", "@", "::attr(", ")", "::text", NoneV}
\* soup.select / select_one raise on a selector that is not valid CSS.
CssValid(sel) == sel # <<>> /\ \A i \in DOMAIN sel : sel[i] \notin InvalidCss

Contains(spec, mark) == \E i \in DOMAIN spec : spec[i] = mark
EndsWith(spec, mark) == spec # <<>> /\ spec[Len(spec)] = mark
FirstIndex(spec, mark) ==
    CHOOSE i \in DOMAIN spec : spec[i] = mark /\ \A j \in 1..(i - 1) : spec[j] # mark
LastIndex(spec, mark) ==
    CHOOSE i \in DOMAIN spec : spec[i] = mark /\ \A j \in (i + 1)..Len(spec) : spec[j] # mark

\* The result of _parse_selector_spec; attr is <<>> (None) or <<name>>.
Parsed(css_selector, attr, text_mode) ==
    [css_selector |-> css_selector, attr |-> attr, text_mode |-> text_mode]

\* A variant that splits on the first "@" (split for rsplit).
Mut_ParseSelectorSpec(spec) ==
    IF Contains(spec, "::attr(") /\ EndsWith(spec, ")")
    THEN LET i == FirstIndex(spec, "::attr(")
         IN  Parsed(SubSeq(spec, 1, i - 1), <<SubSeq(spec, i + 1, Len(spec) - 1)>>, FALSE)
    ELSE IF Contains(spec, "@")
    THEN LET i == FirstIndex(spec, "@")
         IN  Parsed(SubSeq(spec, 1, i - 1), <<SubSeq(spec, i + 1, Len(spec))>>, FALSE)
    ELSE IF EndsWith(spec, "::text")
    THEN Parsed(SubSeq(spec, 1, Len(spec) - 1), <<>>, TRUE)
    ELSE Parsed(spec, <<>>, TRUE)

\* _parse_selector_spec
ParseSelectorSpec(spec) ==
    IF Contains(spec, "::attr(") /\ EndsWith(spec, ")")
    THEN LET i == FirstIndex(spec, "::attr(")
         IN  Parsed(SubSeq(spec, 1, i - 1), <<SubSeq(spec, i + 1, Len(spec) - 1)>>, FALSE)
    ELSE IF Contains(spec, "@")
    THEN LET i == LastIndex(spec, "@")
         IN  Parsed(SubSeq(spec, 1, i - 1), <<SubSeq(spec, i + 1, Len(spec))>>, FALSE)
    ELSE IF EndsWith(spec, "::text")
    THEN Parsed(SubSeq(spec, 1, Len(spec) - 1), <<>>, TRUE)
    ELSE Parsed(spec, <<>>, TRUE)

\* The elements below a sequence of sibling elements, in document order.
RECURSIVE Descendants(_)
Descendants(els) ==
    IF els = <<>> THEN <<>>
    ELSE <<Head(els)>> \o Descendants(Head(els).children) \o Descendants(Tail(els))

\* root.select(css) and root.select_one(css), root given by its children;
\* select_one gives <<>> (None) or <<element>>.
Select(els, css) == SelectSeq(Descendants(els), LAMBDA e : css \in e.sels)
SelectOne(els, css) ==
    LET found == Select(els, css) IN IF found = <<>> THEN <<>> ELSE <<found[1]>>

\* element.get(attr)
GetAttr(el, attr) == DictGet(el.attrs, attr, NoneStr)

\* element.get_text(strip=True): the stripped, non-empty strings of the
\* element and its descendants, concatenated.
RECURSIVE Strings(_)
Strings(els) ==
    IF els = <<>> THEN <<>>
    ELSE (IF Truthy(Strip(Head(els).text)) THEN <<Strip(Head(els).text)>> ELSE <<>>)
         \o Strings(Head(els).children) \o Strings(Tail(els))
RECURSIVE Joined(_)
Joined(strs) ==
    IF strs = <<>> THEN EmptyStr
    ELSE IF Len(strs) = 1 THEN strs[1]
    ELSE Url(strs[1].host, strs[1].segs \o Joined(Tail(strs)).segs)
GetText(el) == Joined(Strings(<<el>>))

\* "value.strip() if isinstance(value, str)", then "value or None"
Cleaned(value) ==
    LET stripped == IF IsStr(value) THEN Strip(value) ELSE value
    IN  IF Truthy(stripped) THEN stripped ELSE NoneStr

\* _extract_with_spec, root given by its children
ExtractWithSpec(els, selector_spec) ==
    LET p == ParseSelectorSpec(selector_spec)
        element == SelectOne(els, p.css_selector)
    IN  IF element = <<>> THEN NoneStr
        ELSE Cleaned(IF p.attr # <<>> THEN GetAttr(element[1], p.attr[1])
                     ELSE IF p.text_mode THEN GetText(element[1])
                     ELSE NoneStr)

\* A variant that keeps a whitespace-only href.
Mut_KeepsHref(tag) == GetAttr(tag, HrefAttr) # NoneStr

\* ListPageParser.parse_list
KeepsHref(tag) ==
    LET href == GetAttr(tag, HrefAttr) IN href # NoneStr /\ Truthy(Strip(href))
ParseList(html, link_selector) ==
    LET kept == SelectSeq(Select(html, link_selector), KeepsHref)
    IN  [i \in DOMAIN kept |-> Strip(GetAttr(kept[i], HrefAttr))]
ParseListRaises(link_selector) == ~CssValid(link_selector)

core_fields == <<"title", "price", "image_url", "description">>

\* A variant without the dict.fromkeys de-duplication.
Mut_AllFields(selectors) ==
    core_fields \o [i \in DOMAIN selectors |-> selectors[i].key]

\* DetailPageParser.parse_detail
AllFields(selectors) ==
    DedupKeys(core_fields \o [i \in DOMAIN selectors |-> selectors[i].key], {})
\* A variant that tests for image_url before it tests for an attribute.
Mut_DetailValue(field, element, p) ==
    IF field = "image_url"
    THEN (IF Truthy(GetAttr(element, SrcAttr)) THEN GetAttr(element, SrcAttr)
          ELSE GetText(element))
    ELSE IF p.attr # <<>> THEN GetAttr(element, p.attr[1])
    ELSE GetText(element)

\* the value of one field whose selector matched element
DetailValue(field, element, p) ==
    IF p.attr # <<>> THEN GetAttr(element, p.attr[1])
    ELSE IF field = "image_url"
    THEN (IF Truthy(GetAttr(element, SrcAttr)) THEN GetAttr(element, SrcAttr)
          ELSE GetText(element))
    ELSE GetText(element)
DetailField(html, field, selector) ==
    IF ~HasSelector(selector) THEN NoneStr
    ELSE LET p == ParseSelectorSpec(selector)
             element == SelectOne(html, p.css_selector)
         IN  IF element = <<>> THEN NoneStr
             ELSE Cleaned(DetailValue(field, element[1], p))
ParseDetail(html, selectors) ==
    LET all_fields == AllFields(selectors)
    IN  [i \in DOMAIN all_fields |->
            Entry(all_fields[i],
                  DetailField(html, all_fields[i], DictGet(selectors, all_fields[i], NoneSel)))]
ParseDetailRaises(selectors) ==
    \E i \in DOMAIN selectors :
        /\ HasSelector(selectors[i].value)
        /\ ~CssValid(ParseSelectorSpec(selectors[i].value).css_selector)

\* A variant that evaluates the field selectors on the whole document.
Mut_ParseItems(html, item_selector, field_selectors) ==
    LET items == Select(html, item_selector)
    IN  [n \in DOMAIN items |->
            [i \in DOMAIN field_selectors |->
                Entry(field_selectors[i].key,
                      ExtractWithSpec(html, field_selectors[i].value))]]

\* ListItemsParser.parse_items
ParseItems(html, item_selector, field_selectors) ==
    LET items == Select(html, item_selector)
    IN  [n \in DOMAIN items |->
            [i \in DOMAIN field_selectors |->
                Entry(field_selectors[i].key,
                      ExtractWithSpec(items[n].children, field_selectors[i].value))]]
ParseItemsRaises(html, item_selector, field_selectors) ==
    \/ ~CssValid(item_selector)
    \/ /\ Select(html, item_selector) # <<>>
       /\ \E i \in DOMAIN field_selectors :
            ~CssValid(ParseSelectorSpec(field_selectors[i].value).css_selector)

----------------------------------------------------------------------------
\* URL handling of run_pipeline (cli.py)

\* A variant that compares without regard to letter case.
Mut_EndsWithUrl(key) ==
    key \in {"image_url", "product_url", "detail_url", "source_list_url", "image_URL"}

\* key.endswith("_url"): the names of the modelled fields that end in "_url".
EndsWithUrl(key) == key \in {"image_url", "product_url", "detail_url", "source_list_url"}

Front(seq) == IF seq = <<>> THEN <<>> ELSE SubSeq(seq, 1, Len(seq) - 1)

\* urllib.parse.urljoin for an absolute base and a reference that is
\* absolute or a relative path.
UrlJoin(base, ref) ==
    IF ref.kind # "url" THEN base
    ELSE IF ref.host # "" THEN ref
    ELSE Url(base.host, Front(base.segs) \o ref.segs)

\* The hosts ("scheme://name") and the first words of relative references
\* that begin with "http" in some letter case.
HttpHosts == {ExampleHost}
HttpWords == {"http-guide", "HTTP-guide"}

\* The test of a reference for being absolute, instead of for its first
\* letters.
Mut_StartsWithHttp(ref) == ref.kind = "url" /\ ref.host # ""

\* normalized.lower().startswith("http")
StartsWithHttp(ref) ==
    /\ ref.kind = "url"
    /\ IF ref.host # "" THEN ref.host \in HttpHosts
       ELSE ref.segs # <<>> /\ ref.segs[1] \in HttpWords

\* A variant without the rewrite loop.
Mut_NormalizeUrls(record, base) == record

\* The "*_url" rewrite loop over one record.
NormalizeUrls(record, base) ==
    [i \in DOMAIN record |->
        IF EndsWithUrl(record[i].key) /\ IsStr(record[i].value) /\ Truthy(record[i].value)
        THEN Entry(record[i].key, UrlJoin(base, record[i].value))
        ELSE record[i]]

\* seq[:n] for n >= 0
Take(seq, n) == SubSeq(seq, 1, IF n < Len(seq) THEN n ELSE Len(seq))

\* A variant that keeps one element more than the limit.
Mut_ApplyLimit(seq, lim) == IF lim = <<>> THEN seq ELSE Take(seq, lim[1] + 1)

ApplyLimit(seq, lim) == IF lim = <<>> THEN seq ELSE Take(seq, lim[1])

----------------------------------------------------------------------------
\* Validator (validator.py)

\* The field names of the model, in the order in which Python compares
\* strings (by code point: "U" comes before "u").
FieldNames ==
    <<"broken", "description", "detail_url", "image_URL", "image_url", "name",
      "price", "product_url", "source_list_url", "title">>

\* sorted(names) for a set of field names
Sorted(names) ==
    LET Listed(f) == f \in names
    IN  SelectSeq(FieldNames, Listed)

\* A variant for which the empty string is a value like any other.
Mut_IsMissing(record, field) ==
    \/ ~DictHas(record, field)
    \/ DictGet(record, field, NoneStr).kind = "none"

\* line 36-37: record.get(field, None) is None or == ""
IsMissing(record, field) ==
    \/ ~DictHas(record, field)
    \/ DictGet(record, field, NoneStr).kind \in {"none", "empty"}

\* validate_records; missing_counts is a function on the fields.
ValidateRecords(recs) ==
    LET all_fields == UNION {DictKeys(recs[n]) : n \in DOMAIN recs}
    IN  [total_records |-> Len(recs),
         fields |-> Sorted(all_fields),
         missing_counts |->
            [f \in all_fields |->
                Cardinality({n \in DOMAIN recs : IsMissing(recs[n], f)})]]

----------------------------------------------------------------------------
\* run_pipeline (cli.py)

\* http.max_retries when the settings do not give it
DefaultMaxRetries == 3
\* http.retry_backoff_multiplier when the settings do not give it
DefaultBackoffMultiplier == 2
\* largest http.max_retries the settings of a run give
PipeMaxRetries == 2
\* largest --limit
MaxLimit == 1

\* The field mappings of the model: none, one "*_url" field, one with a
\* selector that is not valid CSS, and one that configures the bookkeeping
\* fields themselves and a field whose name ends in "_URL".
SelectorMaps(good, bad) ==
    {<<>>,
     <<Entry("product_url", good)>>,
     <<Entry("product_url", bad)>>,
     <<Entry("detail_url", good), Entry("source_list_url", good), Entry("image_URL", good)>>}

\* The descriptors of the model: every combination of present, absent and
\* invalid parts; a complete list-only pair comes with or without a link
\* selector.
TargetConfigs ==
    {c \in [list_url : {NoneStr, EmptyStr, ListUrl},
            link_selector : {NoneSel, LinkSel, BadSel},
            detail_selectors : SelectorMaps(GoodSpec, BadSpec),
            item_selector : {NoneSel, ItemSel},
            item_fields : SelectorMaps(GoodSpec, BadSpec)] :
        (c.item_selector # NoneSel /\ c.item_fields # <<>>)
            => (c.link_selector # BadSel /\ c.detail_selectors = <<>>)}

SettingsSet ==
    [max_retries : {<<n>> : n \in -1..PipeMaxRetries},
     retry_backoff_seconds : {0},
     delay_seconds : {0, 1},
     validation_enabled : {"absent", "false"}]

Limits == {<<>>} \cup {<<n>> : n \in 0..MaxLimit}

\* A line on stderr: its fixed text and the URL it names (the text of the
\* FetchError it may end with is left out).
Message(m, u) == [msg |-> m, url |-> u]
GetEvent(u) == [ev |-> "get", url |-> u, secs |-> 0]
DelayEvent(d) == [ev |-> "delay", url |-> NoneStr, secs |-> d]
ReportEvent == [ev |-> "report", url |-> NoneStr, secs |-> 0]
ExportEvent == [ev |-> "export", url |-> NoneStr, secs |-> 0]

\* A variant in which a link selector takes precedence over the item pair.
Mut_list_only_mode ==
    /\ HasSelector(target_config.item_selector) \/ target_config.item_fields # <<>>
    /\ ~HasSelector(target_config.link_selector)

\* line 86
list_only_mode == HasSelector(target_config.item_selector) \/ target_config.item_fields # <<>>

\* bool(validation_settings.get("enabled", True))
validation_enabled == settings.validation_enabled # "false"

\* "return 1" after printing m to stderr; the frame of get(), if any, is gone.
Fail(m) ==
    /\ stderr' = Append(stderr, m)
    /\ exit_code' = <<1>>
    /\ pc' = "done"

\* An exception leaves run_pipeline.
Escape ==
    /\ pc' = "raised"
    /\ UNCHANGED <<exit_code, stderr>>

ReleaseGet ==
    /\ get_pc' = "idle"
    /\ get_url' = NoneStr
    /\ attempt' = 0
    /\ last_status' = <<>>
    /\ get_result' = NoResult
    /\ log' = <<>>

\* lines 82-84
RejectNoListUrl ==
    /\ pc = "start"
    /\ ~Truthy(target_config.list_url)
    /\ Fail(Message("Config must include list_url.", NoneStr))
    /\ UNCHANGED <<target_config, limit, dry_run, settings, product_urls, idx,
                   records, trace, outcomes, reports, exported>>
    /\ UNCHANGED fetch_vars
    /\ UNCHANGED parse_vars

\* lines 86-93
RejectListOnly ==
    /\ pc = "start"
    /\ Truthy(target_config.list_url)
    /\ list_only_mode
    /\ ~HasSelector(target_config.item_selector) \/ target_config.item_fields = <<>>
    /\ Fail(Message("List-only mode requires item_selector and item_fields.", NoneStr))
    /\ UNCHANGED <<target_config, limit, dry_run, settings, product_urls, idx,
                   records, trace, outcomes, reports, exported>>
    /\ UNCHANGED fetch_vars
    /\ UNCHANGED parse_vars

\* lines 94-97
RejectNoLinkSelector ==
    /\ pc = "start"
    /\ Truthy(target_config.list_url)
    /\ ~list_only_mode
    /\ ~HasSelector(target_config.link_selector)
    /\ Fail(Message("Config must include link_selector.", NoneStr))
    /\ UNCHANGED <<target_config, limit, dry_run, settings, product_urls, idx,
                   records, trace, outcomes, reports, exported>>
    /\ UNCHANGED fetch_vars
    /\ UNCHANGED parse_vars

\* The descriptor passes the checks of lines 82-97.
ConfigAccepted ==
    /\ Truthy(target_config.list_url)
    /\ IF list_only_mode
       THEN HasSelector(target_config.item_selector) /\ target_config.item_fields # <<>>
       ELSE HasSelector(target_config.link_selector)

\* lines 99-135: build the fetcher and the parsers, call fetcher.get(list_url)
StartRun ==
    /\ pc = "start"
    /\ ConfigAccepted
    /\ fetcher' = NewFetcher(
            IF settings.max_retries = <<>> THEN DefaultMaxRetries ELSE settings.max_retries[1],
            settings.retry_backoff_seconds, DefaultBackoffMultiplier, 0)
    /\ GetCall(target_config.list_url)
    /\ trace' = Append(trace, GetEvent(target_config.list_url))
    /\ pc' = "list_fetch"
    /\ UNCHANGED <<target_config, limit, dry_run, settings, exit_code, stderr,
                   product_urls, idx, records, outcomes, reports, exported>>
    /\ UNCHANGED parse_vars

\* A variant that goes on with no records instead of returning.
Mut_ListFetchFailed ==
    /\ pc = "list_fetch"
    /\ get_pc = "raised"
    /\ stderr' = Append(stderr, Message("Failed to fetch list page", NoneStr))
    /\ pc' = "post"
    /\ outcomes' = Append(outcomes, "raised")
    /\ ReleaseGet
    /\ UNCHANGED <<fetcher, target_config, limit, dry_run, settings, exit_code,
                   product_urls, idx, records, trace, reports, exported>>
    /\ UNCHANGED parse_vars

\* lines 136-138
ListFetchFailed ==
    /\ pc = "list_fetch"
    /\ get_pc = "raised"
    /\ Fail(Message("Failed to fetch list page", NoneStr))
    /\ outcomes' = Append(outcomes, "raised")
    /\ ReleaseGet
    /\ UNCHANGED <<fetcher, target_config, limit, dry_run, settings, product_urls, idx,
                   records, trace, reports, exported>>
    /\ UNCHANGED parse_vars

\* lines 146-150 for one record
ListOnlyRecord(record, list_url) ==
    NormalizeUrls(DictSet(record, "source_list_url", list_url), list_url)

\* lines 142-152: list-only mode
ListItemsParsed ==
    /\ pc = "list_fetch"
    /\ get_pc = "returned"
    /\ list_only_mode
    /\ IF ParseItemsRaises(get_result.text, target_config.item_selector,
                           target_config.item_fields)
       THEN Escape /\ UNCHANGED records
       ELSE /\ records' =
                LET items == ApplyLimit(
                        ParseItems(get_result.text, target_config.item_selector,
                                   target_config.item_fields), limit)
                IN  [n \in DOMAIN items |-> ListOnlyRecord(items[n], target_config.list_url)]
            /\ pc' = "post"
            /\ UNCHANGED <<exit_code, stderr>>
    /\ outcomes' = Append(outcomes, "returned")
    /\ ReleaseGet
    /\ UNCHANGED <<fetcher, target_config, limit, dry_run, settings, product_urls, idx,
                   trace, reports, exported>>
    /\ UNCHANGED parse_vars

\* lines 153-159: detail-follow mode, the links of the list page
ListLinksParsed ==
    /\ pc = "list_fetch"
    /\ get_pc = "returned"
    /\ ~list_only_mode
    /\ IF ParseListRaises(target_config.link_selector)
       THEN Escape /\ UNCHANGED <<product_urls, idx>>
       ELSE /\ product_urls' = ApplyLimit(ParseList(get_result.text, target_config.link_selector), limit)
            /\ idx' = 1
            /\ pc' = "loop"
            /\ UNCHANGED <<exit_code, stderr>>
    /\ outcomes' = Append(outcomes, "returned")
    /\ ReleaseGet
    /\ UNCHANGED <<fetcher, target_config, limit, dry_run, settings, records,
                   trace, reports, exported>>
    /\ UNCHANGED parse_vars

\* lines 164-171
FullUrl(url, base_url) ==
    IF StartsWithHttp(Strip(url)) THEN Strip(url) ELSE UrlJoin(base_url, Strip(url))

\* lines 163-174: the head of one iteration of the loop over product_urls
DetailCall ==
    /\ pc = "loop"
    /\ idx <= Len(product_urls)
    /\ IF ~Truthy(Strip(product_urls[idx]))
       THEN /\ idx' = idx + 1
            /\ UNCHANGED <<pc, trace>>
            /\ UNCHANGED fetch_vars
       ELSE /\ GetCall(FullUrl(product_urls[idx], target_config.list_url))
            /\ trace' = Append(trace, GetEvent(FullUrl(product_urls[idx], target_config.list_url)))
            /\ pc' = "detail_fetch"
            /\ UNCHANGED <<fetcher, idx>>
    /\ UNCHANGED <<target_config, limit, dry_run, settings, exit_code, stderr,
                   product_urls, records, outcomes, reports, exported>>
    /\ UNCHANGED parse_vars

\* lines 175-177
DetailSkipped ==
    /\ pc = "detail_fetch"
    /\ get_pc = "raised"
    /\ stderr' = Append(stderr, Message("Skipping", product_urls[idx]))
    /\ outcomes' = Append(outcomes, "raised")
    /\ idx' = idx + 1
    /\ pc' = "loop"
    /\ ReleaseGet
    /\ UNCHANGED <<fetcher, target_config, limit, dry_run, settings, exit_code,
                   product_urls, records, trace, reports, exported>>
    /\ UNCHANGED parse_vars

\* A variant that keeps an extracted detail_url or source_list_url instead
\* of replacing it.
Mut_DetailRecord(html, full_url) ==
    LET record == ParseDetail(html, target_config.detail_selectors)
        with_detail == IF DictHas(record, "detail_url") THEN record
                       ELSE DictSet(record, "detail_url", full_url)
        with_source == IF DictHas(with_detail, "source_list_url") THEN with_detail
                       ELSE DictSet(with_detail, "source_list_url", target_config.list_url)
    IN  NormalizeUrls(with_source, full_url)

\* lines 179-186 for one detail page
DetailRecord(html, full_url) ==
    NormalizeUrls(
        DictSet(DictSet(ParseDetail(html, target_config.detail_selectors),
                        "detail_url", full_url),
                "source_list_url", target_config.list_url),
        full_url)

\* lines 179-189
DetailParsed ==
    /\ pc = "detail_fetch"
    /\ get_pc = "returned"
    /\ IF ParseDetailRaises(target_config.detail_selectors)
       THEN Escape /\ UNCHANGED <<records, idx, trace>>
       ELSE /\ records' = Append(records, DetailRecord(get_result.text, get_url))
            /\ trace' = IF settings.delay_seconds > 0
                        THEN Append(trace, DelayEvent(settings.delay_seconds))
                        ELSE trace
            /\ idx' = idx + 1
            /\ pc' = "loop"
            /\ UNCHANGED <<exit_code, stderr>>
    /\ outcomes' = Append(outcomes, "returned")
    /\ ReleaseGet
    /\ UNCHANGED <<fetcher, target_config, limit, dry_run, settings,
                   product_urls, reports, exported>>
    /\ UNCHANGED parse_vars

\* line 191: the loop over product_urls is over
LoopDone ==
    /\ pc = "loop"
    /\ idx > Len(product_urls)
    /\ pc' = "post"
    /\ UNCHANGED <<target_config, limit, dry_run, settings, exit_code, stderr,
                   product_urls, idx, records, trace, outcomes, reports, exported>>
    /\ UNCHANGED fetch_vars
    /\ UNCHANGED parse_vars

\* A variant without the "if not records" test: the empty sequence is
\* exported like any other.
Mut_NoRecords ==
    /\ pc = "post"
    /\ records = <<>>
    /\ exported' = IF ~dry_run THEN Append(exported, records) ELSE exported
    /\ trace' = trace \o (IF ~dry_run THEN <<ExportEvent>> ELSE <<>>)
    /\ exit_code' = <<0>>
    /\ pc' = "done"
    /\ UNCHANGED <<target_config, limit, dry_run, settings, stderr, product_urls,
                   idx, records, outcomes, reports>>
    /\ UNCHANGED fetch_vars
    /\ UNCHANGED parse_vars

\* lines 193-195
NoRecords ==
    /\ pc = "post"
    /\ records = <<>>
    /\ Fail(Message("No records parsed; aborting.", NoneStr))
    /\ UNCHANGED <<target_config, limit, dry_run, settings, product_urls, idx,
                   records, trace, outcomes, reports, exported>>
    /\ UNCHANGED fetch_vars
    /\ UNCHANGED parse_vars

\* A variant that validates only when it exports.
Mut_Finish ==
    /\ pc = "post"
    /\ records # <<>>
    /\ reports' = IF validation_enabled /\ ~dry_run
                  THEN Append(reports, ValidateRecords(records))
                  ELSE reports
    /\ exported' = IF ~dry_run THEN Append(exported, records) ELSE exported
    /\ trace' = trace \o (IF validation_enabled /\ ~dry_run THEN <<ReportEvent>> ELSE <<>>)
                      \o (IF ~dry_run THEN <<ExportEvent>> ELSE <<>>)
    /\ exit_code' = <<0>>
    /\ pc' = "done"
    /\ UNCHANGED <<target_config, limit, dry_run, settings, stderr, product_urls,
                   idx, records, outcomes>>
    /\ UNCHANGED fetch_vars
    /\ UNCHANGED parse_vars

\* lines 197-220
Finish ==
    /\ pc = "post"
    /\ records # <<>>
    /\ reports' = IF validation_enabled
                  THEN Append(reports, ValidateRecords(records))
                  ELSE reports
    /\ exported' = IF ~dry_run THEN Append(exported, records) ELSE exported
    /\ trace' = trace \o (IF validation_enabled THEN <<ReportEvent>> ELSE <<>>)
                      \o (IF ~dry_run THEN <<ExportEvent>> ELSE <<>>)
    /\ exit_code' = <<0>>
    /\ pc' = "done"
    /\ UNCHANGED <<target_config, limit, dry_run, settings, stderr, product_urls,
                   idx, records, outcomes>>
    /\ UNCHANGED fetch_vars
    /\ UNCHANGED parse_vars

PipeInit ==
    /\ target_config \in TargetConfigs
    /\ limit \in Limits
    /\ dry_run \in BOOLEAN
    /\ settings \in SettingsSet
    /\ pc = "start"
    /\ exit_code = <<>>
    /\ stderr = <<>>
    /\ product_urls = <<>>
    /\ idx = 0
    /\ records = <<>>
    /\ trace = <<>>
    /\ outcomes = <<>>
    /\ reports = <<>>
    /\ exported = <<>>

\* A call of a parser function: its name and arguments (those it does not
\* take are empty).
ParseCall(fn, spec, html, selector, selectors) ==
    [fn |-> fn, spec |-> spec, html |-> html, selector |-> selector, selectors |-> selectors]
NoParseCall == ParseCall("none", <<>>, <<>>, <<>>, <<>>)
Pending == [state |-> "pending", value |-> <<>>]
Returned(v) == [state |-> "returned", value |-> v]
Raised == [state |-> "raised", value |-> <<>>]

ParseIdle ==
    /\ parse_call = NoParseCall
    /\ parse_result = Pending

GetIdle ==
    /\ get_pc = "idle"
    /\ get_url = NoneStr
    /\ attempt = 0
    /\ last_status = <<>>
    /\ get_result = NoResult
    /\ log = <<>>

Init ==
    /\ PipeInit
    /\ fetcher = Unbuilt
    /\ GetIdle
    /\ ParseIdle

Next ==
    \/ RejectNoListUrl
    \/ RejectListOnly
    \/ RejectNoLinkSelector
    \/ StartRun
    \/ GetAttempt
    \/ GetFallThrough
    \/ ListFetchFailed
    \/ ListItemsParsed
    \/ ListLinksParsed
    \/ DetailCall
    \/ DetailSkipped
    \/ DetailParsed
    \/ LoopDone
    \/ NoRecords
    \/ Finish

Spec == Init /\ [][Next]_vars

----------------------------------------------------------------------------
\* A Fetcher on its own: built with any parameters, get() called any number
\* of times.

BackoffBases == {-1, 0, 1, 2}
BackoffMultipliers == {1, 2, 3}
DetailUrl == Url(ExampleHost, <<"product", "1">>)

Fetchers ==
    {NewFetcher(mr, base, mult, jit) :
        mr \in -1..MaxRetries, base \in BackoffBases,
        mult \in BackoffMultipliers, jit \in 0..MaxJitter}

NoTarget ==
    [list_url |-> NoneStr, link_selector |-> NoneSel, detail_selectors |-> <<>>,
     item_selector |-> NoneSel, item_fields |-> <<>>]
NoSettings ==
    [max_retries |-> <<>>, retry_backoff_seconds |-> 0, delay_seconds |-> 0,
     validation_enabled |-> "absent"]

FetchInit ==
    /\ fetcher \in Fetchers
    /\ GetIdle
    /\ target_config = NoTarget
    /\ limit = <<>>
    /\ dry_run = TRUE
    /\ settings = NoSettings
    /\ pc = "standalone"
    /\ exit_code = <<>>
    /\ stderr = <<>>
    /\ product_urls = <<>>
    /\ idx = 0
    /\ records = <<>>
    /\ trace = <<>>
    /\ outcomes = <<>>
    /\ reports = <<>>
    /\ exported = <<>>
    /\ ParseIdle

\* fetcher.get(u), by any caller
FetchCall ==
    /\ pc = "standalone"
    /\ get_pc \in {"idle", "returned", "raised"}
    /\ \E u \in {DetailUrl, AbsLink} : GetCall(u)
    /\ UNCHANGED fetcher
    /\ UNCHANGED pipe_vars
    /\ UNCHANGED parse_vars

FetchNext ==
    \/ FetchCall
    \/ GetAttempt
    \/ GetFallThrough

FetchSpec == FetchInit /\ [][FetchNext]_vars

----------------------------------------------------------------------------
\* The functions of parser.py on their own: one call, on any argument of the
\* sets below.

\* longest selector spec, in pieces
MaxSpecLen == 3
\* most top-level elements of a document given to parse_list
MaxAnchors == 3
\* most elements of a document given to parse_detail, and most containers of
\* a document and children of a container given to parse_items
MaxElems == 2

SpecPieces == {"a.buy", "@", "::attr(", ")", "::text", "href"}
Specs == SeqsUpTo(SpecPieces, MaxSpecLen)

OtherSel == <<"a.other">>
ClassAttr == <<"class">>
Widget == Url("", <<"Widget">>)

\* Documents for parse_list: anchors the link selector matches or not, with
\* no href, a blank one, one with spaces around it or a plain one, at the top
\* level or inside a <div>.
Anchor(sel, h) == Element({sel}, HrefAttrs(h), Widget, <<>>)
Div(children) == Element({}, <<>>, EmptyStr, children)
Anchors ==
    {Anchor(sel, h) : sel \in {LinkSel, OtherSel},
                      h \in {NoneStr, BlankStr, Padded(AbsLink), RelLink}}
    \cup {Div(<<Anchor(LinkSel, h)>>) : h \in {BlankStr, RelLink}}
ListDocs == SeqsUpTo(Anchors, MaxAnchors)

\* Documents for parse_detail: elements without attributes and with empty,
\* blank or padded text, elements with src, href and class attributes, and
\* an element that a.buy does not match.
DetailAttrs ==
    {<<Entry(SrcAttr, EmptyStr)>>,
     <<Entry(SrcAttr, AbsLink), Entry(HrefAttr, BlankStr)>>,
     <<Entry(SrcAttr, BlankStr), Entry(HrefAttr, Padded(RelLink))>>,
     <<Entry(ClassAttr, ListValue(<<"buy">>))>>}
DetailElems ==
    {Element({BuySel}, <<>>, text, <<>>) : text \in {EmptyStr, BlankStr, Padded(Widget)}}
    \cup {Element({BuySel}, attrs, Padded(Widget), <<>>) : attrs \in DetailAttrs}
    \cup {Element({OtherSel}, <<Entry(SrcAttr, AbsLink)>>, Widget, <<>>)}
DetailDocs == SeqsUpTo(DetailElems, MaxElems)

\* Selector mappings for parse_detail: one of the fields title, image_url
\* and sku with an empty spec, a text spec or a spec that names the
\* attribute src, href or class, alone or followed by a second field.
FieldSpecs ==
    {<<>>, BuySel, <<"a.buy", "@", "src">>, <<"a.buy", "::attr(", "href", ")">>,
     <<"a.buy", "@", "class">>}
FieldEntries == {Entry(k, v) : k \in {"title", "image_url", "sku"}, v \in FieldSpecs}
SecondEntries == {Entry("title", BuySel), Entry("image_url", <<>>), Entry("sku", BuySel)}
FieldMaps ==
    {<<>>} \cup {<<e>> : e \in FieldEntries}
    \cup {m \in FieldEntries \X SecondEntries : m[1].key # m[2].key}

\* Documents for parse_items: item containers with up to MaxElems children,
\* and the same elements outside any container.
ItemChildren ==
    {Element({BuySel}, HrefAttrs(AbsLink), Widget, <<>>),
     Element({OtherSel}, HrefAttrs(Padded(RelLink)), Padded(Widget), <<>>)}
Item(children) == Element({ItemSel}, <<>>, EmptyStr, children)
ItemElems == {Item(ch) : ch \in SeqsUpTo(ItemChildren, MaxElems)} \cup ItemChildren
ItemDocs == SeqsUpTo(ItemElems, MaxElems)
ItemFieldMaps ==
    {<<>>,
     <<Entry("product_url", GoodSpec)>>,
     <<Entry("name", BuySel), Entry("product_url", GoodSpec)>>,
     <<Entry("product_url", <<"a.other", "@", "href">>), Entry("name", <<"a.other", "::text">>)>>,
     <<Entry("name", BuySel), Entry("broken", BadSpec)>>}

ParserInit ==
    /\ \/ \E spec \in Specs :
            parse_call = ParseCall("_parse_selector_spec", spec, <<>>, <<>>, <<>>)
       \/ \E html \in ListDocs : \E sel \in {LinkSel, BadSel} :
            parse_call = ParseCall("parse_list", <<>>, html, sel, <<>>)
       \/ \E html \in DetailDocs : \E m \in FieldMaps :
            parse_call = ParseCall("parse_detail", <<>>, html, <<>>, m)
       \/ \E html \in ItemDocs : \E m \in ItemFieldMaps :
            parse_call = ParseCall("parse_items", <<>>, html, ItemSel, m)
    /\ parse_result = Pending
    /\ fetcher = Unbuilt
    /\ GetIdle
    /\ target_config = NoTarget
    /\ limit = <<>>
    /\ dry_run = TRUE
    /\ settings = NoSettings
    /\ pc = "standalone"
    /\ exit_code = <<>>
    /\ stderr = <<>>
    /\ product_urls = <<>>
    /\ idx = 0
    /\ records = <<>>
    /\ trace = <<>>
    /\ outcomes = <<>>
    /\ reports = <<>>
    /\ exported = <<>>

\* _parse_selector_spec(spec)
CallParseSelectorSpec ==
    /\ parse_call.fn = "_parse_selector_spec"
    /\ parse_result = Pending
    /\ parse_result' = Returned(ParseSelectorSpec(parse_call.spec))
    /\ UNCHANGED <<parse_call, fetch_vars, pipe_vars>>

\* ListPageParser(link_selector).parse_list(html)
CallParseList ==
    /\ parse_call.fn = "parse_list"
    /\ parse_result = Pending
    /\ parse_result' = IF ParseListRaises(parse_call.selector) THEN Raised
                       ELSE Returned(ParseList(parse_call.html, parse_call.selector))
    /\ UNCHANGED <<parse_call, fetch_vars, pipe_vars>>

\* DetailPageParser(selectors).parse_detail(html)
CallParseDetail ==
    /\ parse_call.fn = "parse_detail"
    /\ parse_result = Pending
    /\ parse_result' = IF ParseDetailRaises(parse_call.selectors) THEN Raised
                       ELSE Returned(ParseDetail(parse_call.html, parse_call.selectors))
    /\ UNCHANGED <<parse_call, fetch_vars, pipe_vars>>

\* ListItemsParser(item_selector, field_selectors).parse_items(html)
CallParseItems ==
    /\ parse_call.fn = "parse_items"
    /\ parse_result = Pending
    /\ parse_result' =
            IF ParseItemsRaises(parse_call.html, parse_call.selector, parse_call.selectors)
            THEN Raised
            ELSE Returned(ParseItems(parse_call.html, parse_call.selector,
                                     parse_call.selectors))
    /\ UNCHANGED <<parse_call, fetch_vars, pipe_vars>>

ParserNext ==
    \/ CallParseSelectorSpec
    \/ CallParseList
    \/ CallParseDetail
    \/ CallParseItems

ParserSpec == ParserInit /\ [][ParserNext]_vars

----------------------------------------------------------------------------
\* validate_records on its own: called once on any sequence of records.

\* number of records handed to validate_records at most
MaxRecords == 2

\* Values of a record: None, "", a blank string, a text, an empty list.
RecordValues == {NoneStr, EmptyStr, BlankStr, Widget, ListValue(<<>>)}
\* Records with up to two of the fields "name" and "image_URL", in either
\* order of insertion.
ValidatorRecords ==
    {<<>>}
    \cup {<<Entry(k, v)>> : k \in {"name", "image_URL"}, v \in RecordValues}
    \cup {<<Entry("name", v), Entry("image_URL", w)>> : v \in RecordValues, w \in RecordValues}
    \cup {<<Entry("image_URL", v), Entry("name", w)>> : v \in RecordValues, w \in RecordValues}

ValidatorInit ==
    /\ fetcher = Unbuilt
    /\ GetIdle
    /\ target_config = NoTarget
    /\ limit = <<>>
    /\ dry_run = TRUE
    /\ settings = NoSettings
    /\ pc = "standalone"
    /\ exit_code = <<>>
    /\ stderr = <<>>
    /\ product_urls = <<>>
    /\ idx = 0
    /\ \E k \in 0..MaxRecords : records \in [1..k -> ValidatorRecords]
    /\ trace = <<>>
    /\ outcomes = <<>>
    /\ reports = <<>>
    /\ exported = <<>>
    /\ ParseIdle

\* summary = validate_records(records)
CallValidateRecords ==
    /\ pc = "standalone"
    /\ reports = <<>>
    /\ reports' = <<ValidateRecords(records)>>
    /\ UNCHANGED <<target_config, limit, dry_run, settings, pc, exit_code, stderr,
                   product_urls, idx, records, trace, outcomes, exported>>
    /\ UNCHANGED fetch_vars
    /\ UNCHANGED parse_vars

ValidatorNext == CallValidateRecords

ValidatorSpec == ValidatorInit /\ [][ValidatorNext]_vars

----------------------------------------------------------------------------
\* Properties of Fetcher.get, stated over the log of one call.

\* The session.get calls of the running get(), in order.
IsRequest(e) == e.ev = "request"
Requests == SelectSeq(log, IsRequest)

\* The classes of outcome, as the documentation words them.
Is429Or5xx(e) == e.kind = "response" /\ (e.status = 429 \/ e.status \in 500..599)
IsTransientFailure(e) == e.kind = "exc" \/ Is429Or5xx(e)
IsPlain4xx(e) == e.kind = "response" /\ e.status \in 400..499 /\ e.status # 429
IsBelow400(e) == e.kind = "response" /\ e.status < 400

\* C1: when the first k-1 responses of a call (k <= max_retries) have status
\* 429 or 5xx and the k-th has a status below 400, get() has returned the
\* text of the k-th response after exactly k requests; after k < max_retries
\* responses of status 429 or 5xx get() is about to request again; and no
\* request ever follows a response that was returned.
C1_ReturnsFirstNonTransient ==
    LET reqs == Requests
        k == Len(reqs)
    IN  /\ (/\ k >= 1
            /\ k <= fetcher.max_retries
            /\ \A i \in 1..(k - 1) : Is429Or5xx(reqs[i])
            /\ IsBelow400(reqs[k]))
           => (/\ get_pc = "returned"
               /\ get_result = TextResult(reqs[k].text)
               /\ attempt = k)
        /\ (/\ get_pc # "idle"
            /\ k < fetcher.max_retries
            /\ \A i \in 1..k : Is429Or5xx(reqs[i]))
           => (get_pc = "loop" /\ attempt = k)
        /\ \A i \in 1..(k - 1) : ~IsBelow400(reqs[i])

\* The case of the test: statuses 502-like, 5xx, 200 with max_retries = 3.
C1_Witness ==
    /\ fetcher.max_retries = 3
    /\ get_pc = "returned"
    /\ Len(Requests) = 3
    /\ Requests[1].status = 500
    /\ Requests[2].status = 599
    /\ Requests[3].status = 200
    /\ get_result.text = PageOf(<<RelLink>>)

\* C2: a 4xx response other than 429, at whatever attempt it arrives, is the
\* last request of the call, and get() has raised FetchError naming the URL
\* and that status.
C2_NoRetryOn4xx ==
    LET reqs == Requests
    IN  \A i \in DOMAIN reqs :
            IsPlain4xx(reqs[i])
            => (/\ i = Len(reqs)
                /\ get_pc = "raised"
                /\ get_result = StatusError(get_url, <<reqs[i].status>>))

\* A 404 on the second of three allowed attempts.
C2_Witness ==
    /\ fetcher.max_retries = 3
    /\ get_pc = "raised"
    /\ Len(Requests) = 2
    /\ Requests[2].status = 404
    /\ get_result.status = <<404>>

\* C3: with max_retries >= 1, while every attempt so far failed transiently
\* get() keeps trying up to max_retries requests, and after the
\* max_retries-th it has raised FetchError naming the URL and the failure of
\* the last attempt: its status, or the transport error.
C3_RetryExhaustion ==
    LET reqs == Requests
        n == Len(reqs)
    IN  (/\ fetcher.built
         /\ fetcher.max_retries >= 1
         /\ get_pc # "idle"
         /\ \A i \in DOMAIN reqs : IsTransientFailure(reqs[i]))
        => (/\ n <= fetcher.max_retries
            /\ n < fetcher.max_retries => get_pc = "loop"
            /\ n = fetcher.max_retries =>
                  /\ get_pc = "raised"
                  /\ get_result.kind = "error"
                  /\ get_result.url = get_url
                  /\ reqs[n].kind = "response" =>
                        (get_result.cause = "status" /\ get_result.status = <<reqs[n].status>>)
                  /\ reqs[n].kind = "exc" => get_result.cause = "exc")

\* A mix: a transport error, a 429, then a 500 on the last of three attempts.
C3_Witness ==
    /\ fetcher.max_retries = 3
    /\ get_pc = "raised"
    /\ Len(Requests) = 3
    /\ Requests[1].kind = "exc"
    /\ Requests[2].status = 429
    /\ Requests[3].status = 500
    /\ get_result.status = <<500>>

\* The jitter range [0, retry_jitter_seconds].
JitterRange == 0..(IF fetcher.retry_jitter_seconds > 0 THEN fetcher.retry_jitter_seconds ELSE 0)

\* The number of requests among the first p entries of the log.
RequestsUpTo(p) == Cardinality({q \in 1..p : IsRequest(log[q])})

\* C4: with base = retry_backoff_seconds > 0, the log of a call has a sleep
\* exactly after each transiently failed request k < max_retries, of
\* base * multiplier^(k-1) seconds plus a jitter in [0, jitter_max]; with
\* base <= 0 it has no sleep; a sleep never follows the last allowed
\* request, a returned response or a plain 4xx, and never another sleep.
C4_BackoffSchedule ==
    \A p \in DOMAIN log :
        LET k == RequestsUpTo(p)
        IN  /\ IsRequest(log[p]) =>
                LET retried == /\ fetcher.retry_backoff_seconds > 0
                               /\ IsTransientFailure(log[p])
                               /\ k < fetcher.max_retries
                IN  IF retried
                    THEN /\ p < Len(log)
                         /\ ~IsRequest(log[p + 1])
                    ELSE p < Len(log) => IsRequest(log[p + 1])
            /\ ~IsRequest(log[p]) =>
                /\ p > 1
                /\ IsRequest(log[p - 1])
                /\ \E j \in JitterRange :
                      log[p].secs =
                          fetcher.retry_backoff_seconds
                              * Pow(fetcher.retry_backoff_multiplier, k - 1) + j

\* base 2, multiplier 3: the sleeps after attempts 1 and 2 are 2 and 6 (+ jitter).
C4_Witness ==
    /\ fetcher.retry_backoff_seconds = 2
    /\ fetcher.retry_backoff_multiplier = 3
    /\ fetcher.retry_jitter_seconds = 1
    /\ fetcher.max_retries = 3
    /\ Len(log) = 5
    /\ log[2].secs = 2
    /\ log[4].secs = 7
    /\ get_pc = "raised"

----------------------------------------------------------------------------
\* Properties of run_pipeline.

IsGet(e) == e.ev = "get"
\* The URLs of the fetcher.get calls of the run, in order; the first is the
\* list page, and outcomes[i] is how the i-th ended.
GetUrls == LET gets == SelectSeq(trace, IsGet) IN [i \in DOMAIN gets |-> gets[i].url]
\* The URL each kept link resolves to.
ResolvedLinks ==
    [i \in DOMAIN product_urls |-> FullUrl(product_urls[i], target_config.list_url)]
\* The resolved URLs of the links from the i-th on whose fetch returned.
RECURSIVE FetchedFrom(_)
FetchedFrom(i) ==
    IF i > Len(product_urls) THEN <<>>
    ELSE (IF outcomes[i + 1] = "returned" THEN <<ResolvedLinks[i]>> ELSE <<>>)
         \o FetchedFrom(i + 1)
DetailUrlsOf(recs) == [n \in DOMAIN recs |-> DictGet(recs[n], "detail_url", NoneStr)]
\* run_pipeline is over, by a return or by an exception, after the loop over
\* the links was entered.
DetailRunOver == pc \in {"done", "raised"} /\ idx >= 1

\* C5: a detail-follow run in which some detail fetch raised FetchError has,
\* when it is over, fetched every kept link, in order, and holds exactly one
\* record per link whose fetch returned, in link order.
C5_SkipOnlyFailedLinks ==
    (/\ DetailRunOver
     /\ \E i \in 2..Len(outcomes) : outcomes[i] = "raised")
    => (/\ Len(outcomes) = 1 + Len(product_urls)
        /\ GetUrls = <<target_config.list_url>> \o ResolvedLinks
        /\ DetailUrlsOf(records) = FetchedFrom(1))

\* C6: once the fetch of the list page has raised FetchError, the run has
\* returned 1 having made no other fetch, no validation report and no export.
C6_ListFetchFatal ==
    (outcomes # <<>> /\ outcomes[1] = "raised")
    => (/\ pc = "done"
        /\ exit_code = <<1>>
        /\ trace = <<GetEvent(target_config.list_url)>>
        /\ reports = <<>>
        /\ exported = <<>>)

\* The list fetch fails in list-only mode.
C6_Witness ==
    /\ list_only_mode
    /\ outcomes = <<"raised">>
    /\ pc = "done"
    /\ exit_code = <<1>>

NoRecordsText == "No records parsed; aborting."
ListFetchText == "Failed to fetch list page"

\* C7: a run that got its list page and ends with an empty record sequence
\* has returned 1, exported nothing, and printed the no-records message
\* last, which a run whose list fetch failed never prints (and which is not
\* the list-fetch message).
C7_EmptyResultFails ==
    /\ (/\ pc = "done"
        /\ outcomes # <<>>
        /\ outcomes[1] = "returned"
        /\ records = <<>>)
       => (/\ exit_code = <<1>>
           /\ exported = <<>>
           /\ \A i \in DOMAIN trace : trace[i] # ExportEvent
           /\ stderr # <<>>
           /\ stderr[Len(stderr)].msg = NoRecordsText
           /\ \A i \in DOMAIN stderr : stderr[i].msg # ListFetchText)
    /\ \A i \in DOMAIN stderr :
          stderr[i].msg = NoRecordsText => (outcomes # <<>> /\ outcomes[1] = "returned")
    /\ NoRecordsText # ListFetchText

\* Every detail fetch of a two-link page failed.
C7_Witness ==
    /\ pc = "done"
    /\ outcomes = <<"returned", "raised", "raised">>
    /\ records = <<>>
    /\ exit_code = <<1>>

\* C8: a run that ends with at least one record has printed exactly one
\* validation report if validation is enabled (no setting, or true) and none
\* otherwise, whatever dry_run is, and has exported its records exactly once
\* if dry_run is false and not at all otherwise, whatever the validation
\* setting is; nothing is reported or exported before the end.
C8_ReportAndExport ==
    /\ (pc = "done" /\ records # <<>>)
       => (/\ reports = (IF settings.validation_enabled \in {"absent", "true"}
                         THEN <<ValidateRecords(records)>> ELSE <<>>)
           /\ exported = (IF dry_run THEN <<>> ELSE <<records>>))
    /\ pc # "done" => (reports = <<>> /\ exported = <<>>)

\* The dry run of the test: a report, no export.
C8_Witness ==
    /\ pc = "done"
    /\ records # <<>>
    /\ dry_run
    /\ settings.validation_enabled = "absent"
    /\ Len(reports) = 1
    /\ reports[1].total_records = Len(records)
    /\ exported = <<>>

\* The descriptor has a link selector and a non-empty detail-field mapping.
CompleteDetailPair ==
    HasSelector(target_config.link_selector) /\ target_config.detail_selectors # <<>>
\* The descriptor has an item selector and non-empty item fields.
CompleteListOnlyPair ==
    HasSelector(target_config.item_selector) /\ target_config.item_fields # <<>>
Malformed ==
    \/ target_config.list_url \in {NoneStr, EmptyStr}
    \/ (~CompleteDetailPair /\ ~CompleteListOnlyPair)

\* C9: with a malformed descriptor run_pipeline makes no fetch, no
\* validation report and no export, and returns 1.
C9_MalformedFailsFast ==
    (pc # "standalone" /\ Malformed)
    => (/\ trace = <<>>
        /\ reports = <<>>
        /\ exported = <<>>
        /\ pc \in {"start", "done"}
        /\ pc = "done" => exit_code = <<1>>)

\* C10: no exception leaves run_pipeline while a detail item is processed.
C10_NoEscapeFromItem == pc = "raised" => idx = 0

----------------------------------------------------------------------------
\* Properties of the records and the fetches of run_pipeline.

\* The modelled field names that end in "_url", in this letter case.
UrlFieldNames == {"image_url", "product_url", "detail_url", "source_list_url"}
NonEmptyString(v) == v.kind \in {"blank", "url"}
IsAbsolute(v) == v.kind = "url" /\ v.host # ""
\* RFC 3986 resolution of a path reference: an absolute one is the result;
\* a relative one replaces the last segment of the base path.
Resolved(base, ref) ==
    IF IsAbsolute(ref) THEN ref
    ELSE [kind |-> "url", host |-> base.host,
          segs |-> SubSeq(base.segs, 1, Len(base.segs) - 1) \o ref.segs, pad |-> FALSE]
\* Every "*_url" field of rec that holds a non-empty string holds the
\* resolution against base of the value before the rewrite, which was
\* injected (a bookkeeping field) or extracted.
UrlFieldsResolved(rec, extracted, injected, base) ==
    \A i \in DOMAIN rec :
        (rec[i].key \in UrlFieldNames /\ NonEmptyString(rec[i].value))
        => /\ rec[i].value =
                Resolved(base, IF DictHas(injected, rec[i].key)
                               THEN DictGet(injected, rec[i].key, NoneStr)
                               ELSE DictGet(extracted, rec[i].key, NoneStr))
           /\ IsAbsolute(rec[i].value)
\* The step that appends the record of one detail page.
DetailRecordStep == pc = "detail_fetch" /\ pc' = "loop" /\ Len(records') = Len(records) + 1
\* The step that builds the records of a list-only run.
ListRecordsStep == pc = "list_fetch" /\ pc' = "post"
\* The step that takes the links of the list page.
ListLinksStep == pc = "list_fetch" /\ pc' = "loop"

\* C11: the record a detail page gives has every non-empty "*_url" field
\* resolved against the URL of that page, the records of a list-only run
\* have them resolved against the list URL, an absolute value is kept, the
\* result is absolute, and a record is not changed afterwards.
C11_UrlFieldsNormalized ==
    [][/\ DetailRecordStep =>
            UrlFieldsResolved(
                records'[Len(records')],
                ParseDetail(get_result.text, target_config.detail_selectors),
                <<Entry("detail_url", get_url),
                  Entry("source_list_url", target_config.list_url)>>,
                get_url)
       /\ ListRecordsStep =>
            LET items == ParseItems(get_result.text, target_config.item_selector,
                                    target_config.item_fields)
            IN  \A n \in DOMAIN records' :
                    UrlFieldsResolved(
                        records'[n], items[n],
                        <<Entry("source_list_url", target_config.list_url)>>,
                        target_config.list_url)
       /\ \A n \in DOMAIN records : records'[n] = records[n]
       /\ \A n \in DOMAIN exported' : exported'[n] = records'
      ]_vars

\* The product link "product/1" of the page at https://example.com/product/1
\* was resolved against that page, not against the list page.
C11_Witness ==
    /\ pc = "done"
    /\ exported # <<>>
    /\ \E n \in DOMAIN records :
        /\ DictGet(records[n], "detail_url", NoneStr) = Url(ExampleHost, <<"product", "1">>)
        /\ DictGet(records[n], "product_url", NoneStr)
             = Url(ExampleHost, <<"product", "product", "1">>)

\* The URL the claim gives for a kept link: the link itself if its text
\* begins with "http" in any letter case, its join against the list URL
\* otherwise.
ExpectedFetch(link) ==
    IF link \in {AbsLink, HttpRelLink} THEN link
    ELSE IF link = RelLink THEN Url(ExampleHost, <<"product", "1">>)
    ELSE Resolved(target_config.list_url, link)

\* C12: the i-th detail fetch of a run is of the URL the i-th kept link
\* resolves to.
C12_DetailLinkResolution ==
    \A i \in 2..Len(GetUrls) :
        /\ i - 1 <= Len(product_urls)
        /\ GetUrls[i] = ExpectedFetch(product_urls[i - 1])

\* A relative link, an absolute link and a relative link that begins with
\* "HTTP" were each fetched.
C12_Witness ==
    /\ \E i \in 2..Len(GetUrls) :
         product_urls[i - 1] = RelLink /\ GetUrls[i] = Url(ExampleHost, <<"product", "1">>)
    /\ \E i \in 2..Len(GetUrls) : product_urls[i - 1] = HttpRelLink /\ GetUrls[i] = HttpRelLink

\* The URLs of the detail fetches that returned, in order.
RECURSIVE ReturnedFrom(_)
ReturnedFrom(i) ==
    IF i > Len(outcomes) \/ i > Len(GetUrls) THEN <<>>
    ELSE (IF outcomes[i] = "returned" THEN <<GetUrls[i]>> ELSE <<>>) \o ReturnedFrom(i + 1)

\* C13: the n-th record of a detail-follow run has as detail_url the URL of
\* the n-th detail fetch that returned, and every record of either mode has
\* the list URL as source_list_url, whatever fields are configured.
C13_BookkeepingFields ==
    /\ \A n \in DOMAIN records :
          DictGet(records[n], "source_list_url", NoneStr) = target_config.list_url
    /\ (~list_only_mode /\ pc # "standalone") =>
          /\ Len(records) <= Len(ReturnedFrom(2))
          /\ \A n \in DOMAIN records :
                DictGet(records[n], "detail_url", NoneStr) = ReturnedFrom(2)[n]

\* The descriptor configures detail_url and source_list_url as fields and the
\* page gave them a value, which the injected values replaced.
C13_Witness ==
    /\ ~list_only_mode
    /\ DictHas(target_config.detail_selectors, "detail_url")
    /\ DictHas(target_config.detail_selectors, "source_list_url")
    /\ records # <<>>
    /\ DictGet(records[1], "image_URL", NoneStr) = AbsLink
    /\ DictGet(records[1], "detail_url", NoneStr) = Url(ExampleHost, <<"product", "1">>)
    /\ DictGet(records[1], "source_list_url", NoneStr) = ListUrl

\* min(n, len) for the limit of the run; len when there is no limit
Kept(len) == IF limit = <<>> \/ limit[1] >= len THEN len ELSE limit[1]

----------------------------------------------------------------------------
\* Properties of the functions of parser.py.

HasReturned(fn) == parse_call.fn = fn /\ parse_result.state = "returned"
NoAttr == <<>>

\* C15: the triple _parse_selector_spec returns is the one the first rule
\* that applies gives: (1) the spec holds "::attr(" and ends with ")": the
\* text before the first "::attr(", the text between it and the final ")",
\* text_mode false; (2) it holds "@": the texts around the last "@",
\* text_mode false; (3) it ends with "::text": the text before it, no attr,
\* text_mode true; (4) the spec itself, no attr, text_mode true.
C15_SelectorSpecGrammar ==
    HasReturned("_parse_selector_spec") =>
        LET spec == parse_call.spec
            r == parse_result.value
            has_attr_call == \E i \in DOMAIN spec : spec[i] = "::attr("
            closes == Len(spec) > 0 /\ spec[Len(spec)] = ")"
            has_at == \E i \in DOMAIN spec : spec[i] = "@"
            ends_text == Len(spec) > 0 /\ spec[Len(spec)] = "::text"
        IN  IF has_attr_call /\ closes
            THEN /\ r.attr # NoAttr
                 /\ r.css_selector \o <<"::attr(">> \o r.attr[1] \o <<")">> = spec
                 /\ \A i \in DOMAIN r.css_selector : r.css_selector[i] # "::attr("
                 /\ r.text_mode = FALSE
            ELSE IF has_at
            THEN /\ r.attr # NoAttr
                 /\ r.css_selector \o <<"@">> \o r.attr[1] = spec
                 /\ \A i \in DOMAIN r.attr[1] : r.attr[1][i] # "@"
                 /\ r.text_mode = FALSE
            ELSE IF ends_text
            THEN /\ r.css_selector \o <<"::text">> = spec
                 /\ r.attr = NoAttr
                 /\ r.text_mode = TRUE
            ELSE /\ r.css_selector = spec
                 /\ r.attr = NoAttr
                 /\ r.text_mode = TRUE

\* "a.buy@::text" holds "@" and ends with "::text": rule 2 parsed it.
C15_Witness ==
    /\ HasReturned("_parse_selector_spec")
    /\ parse_call.spec = <<"a.buy", "@", "::text">>
    /\ parse_result.value = Parsed(<<"a.buy">>, <<<<"::text">>>>, FALSE)

KeysOf(d) == [i \in DOMAIN d |-> d[i].key]
Canonical == <<"title", "price", "image_url", "description">>
IsExtra(k) == \A i \in DOMAIN Canonical : Canonical[i] # k
\* Some element of the document (they have no children) matches a.buy.
BuyMatches(html) == \E i \in DOMAIN html : BuySel \in html[i].sels

FirstBuy(html) == html[CHOOSE i \in DOMAIN html :
                        BuySel \in html[i].sels /\ \A j \in 1..(i - 1) : BuySel \notin html[j].sels]
\* A value as it is stored: trimmed, null when nothing is left.
Stored(v) ==
    IF v.kind \in {"none", "empty", "blank"} THEN NoneStr ELSE [v EXCEPT !.pad = FALSE]
HasAttr(el, name) == \E i \in DOMAIN el.attrs : el.attrs[i].key = name
AttrOf(el, name) == el.attrs[CHOOSE i \in DOMAIN el.attrs : el.attrs[i].key = name].value
\* The attribute a spec of FieldSpecs names, if any.
NamedAttr(spec) ==
    IF spec = <<"a.buy", "@", "src">> THEN <<SrcAttr>>
    ELSE IF spec = <<"a.buy", "::attr(", "href", ")">> THEN <<HrefAttr>>
    ELSE IF spec = <<"a.buy", "@", "class">> THEN <<ClassAttr>>
    ELSE <<>>
\* The value-source rule, with src_gives(el) saying when src is the source
\* of an image_url without a named attribute.
ValueSourceRule(src_gives(_)) ==
    (HasReturned("parse_detail") /\ BuyMatches(parse_call.html)) =>
        LET el == FirstBuy(parse_call.html)
            selectors == parse_call.selectors
        IN  \A j \in DOMAIN selectors :
                selectors[j].value # <<>> =>
                    DictGet(parse_result.value, selectors[j].key, NoneStr) =
                        LET named == NamedAttr(selectors[j].value)
                        IN  IF named # <<>>
                            THEN (IF HasAttr(el, named[1]) THEN Stored(AttrOf(el, named[1]))
                                  ELSE NoneStr)
                            ELSE IF selectors[j].key = "image_url" /\ src_gives(el)
                            THEN Stored(AttrOf(el, SrcAttr))
                            ELSE Stored(el.text)
SrcPresent(el) == HasAttr(el, SrcAttr)
SrcNotEmpty(el) == HasAttr(el, SrcAttr) /\ AttrOf(el, SrcAttr) # EmptyStr

\* C17 as claimed: a named attribute is the value for every field; without
\* one, image_url is the src attribute whenever the element has one, its
\* trimmed text when it has none; any other field is the trimmed text.
C17_ValueSourceAsClaimed == ValueSourceRule(SrcPresent)

\* C17: a named attribute is the value for every field; without one,
\* image_url is the src attribute unless src is absent or the empty string,
\* when it is the trimmed text; any other field is the trimmed text.
C17_ValueSource == ValueSourceRule(SrcNotEmpty)

\* image_url with a text spec took src; image_url with "@href" took href.
C17_Witness ==
    /\ HasReturned("parse_detail")
    /\ parse_call.html # <<>>
    /\ parse_call.html[1] =
         Element({BuySel}, <<Entry(SrcAttr, AbsLink), Entry(HrefAttr, BlankStr)>>,
                 Padded(Widget), <<>>)
    /\ parse_call.selectors = <<Entry("image_url", BuySel), Entry("title", BuySel)>>
    /\ DictGet(parse_result.value, "image_url", NoneStr) = AbsLink
    /\ DictGet(parse_result.value, "title", NoneStr) = Widget

\* null, or a non-empty string without whitespace around it
CleanValue(v) == v = NoneStr \/ (v.kind = "url" /\ ~v.pad)

\* C18: every value of a record that parse_detail or parse_items returns is
\* null or a non-empty string with no whitespace around it.
C18_NoBlankValues ==
    /\ HasReturned("parse_detail") =>
          \A i \in DOMAIN parse_result.value : CleanValue(parse_result.value[i].value)
    /\ HasReturned("parse_items") =>
          \A n \in DOMAIN parse_result.value :
              \A i \in DOMAIN parse_result.value[n] :
                  CleanValue(parse_result.value[n][i].value)

\* The trimmed hrefs of the elements the link selector matches, in document
\* order, without those that have no href or a blank one.
RECURSIVE ExpectedLinks(_)
ExpectedLinks(els) ==
    IF els = <<>> THEN <<>>
    ELSE LET el == Head(els)
             own == IF /\ LinkSel \in el.sels
                       /\ HasAttr(el, HrefAttr)
                       /\ AttrOf(el, HrefAttr).kind = "url"
                    THEN <<Stored(AttrOf(el, HrefAttr))>>
                    ELSE <<>>
         IN  own \o ExpectedLinks(el.children) \o ExpectedLinks(Tail(els))

\* C19: parse_list returns the trimmed hrefs of the matched elements in
\* document order, duplicates kept, without the elements that have no href
\* or a whitespace-only one.
C19_ParseListLinks ==
    HasReturned("parse_list") => parse_result.value = ExpectedLinks(parse_call.html)

\* Three anchors whose second has a blank href give two links, in order and
\* trimmed.
C19_Witness ==
    /\ HasReturned("parse_list")
    /\ parse_call.html = <<Anchor(LinkSel, Padded(AbsLink)), Anchor(LinkSel, BlankStr),
                           Anchor(LinkSel, RelLink)>>
    /\ parse_result.value = <<AbsLink, RelLink>>

\* The containers of a document of ItemDocs: its top-level elements that the
\* item selector matches.
IsItem(el) == ItemSel \in el.sels
\* What a spec reads from the first child of the container that its CSS
\* selector matches: the named attribute or the text; null without a match.
FromContainer(container, spec) ==
    LET p == ParseSelectorSpec(spec)
        hits == {i \in DOMAIN container.children :
                    p.css_selector \in container.children[i].sels}
    IN  IF hits = {} THEN NoneStr
        ELSE LET el == container.children[CHOOSE i \in hits : \A j \in hits : i <= j]
             IN  IF p.attr = <<>> THEN Stored(el.text)
                 ELSE IF HasAttr(el, p.attr[1]) THEN Stored(AttrOf(el, p.attr[1]))
                 ELSE NoneStr

\* C20: parse_items returns one record per container, in document order,
\* whose keys are the configured fields in configuration order and whose
\* values come from the first match of each selector inside that container.
C20_ItemsPerContainer ==
    HasReturned("parse_items") =>
        LET containers == SelectSeq(parse_call.html, IsItem)
            fields == parse_call.selectors
            recs == parse_result.value
        IN  /\ Len(recs) = Len(containers)
            /\ \A n \in DOMAIN recs :
                  /\ KeysOf(recs[n]) = KeysOf(fields)
                  /\ \A i \in DOMAIN fields :
                        recs[n][i].value = FromContainer(containers[n], fields[i].value)

\* Two containers and an a.buy outside them: the empty second container has
\* a null product_url, not the href of another element.
C20_Witness ==
    /\ HasReturned("parse_items")
    /\ Len(parse_call.html) = 2
    /\ parse_call.html[1] = Item(<<Element({BuySel}, HrefAttrs(AbsLink), Widget, <<>>)>>)
    /\ parse_call.html[2] = Item(<<>>)
    /\ parse_call.selectors = <<Entry("name", BuySel), Entry("product_url", GoodSpec)>>
    /\ parse_result.value =
         << <<Entry("name", Widget), Entry("product_url", AbsLink)>>,
            <<Entry("name", NoneStr), Entry("product_url", NoneStr)>> >>

----------------------------------------------------------------------------
\* Properties of whole runs of run_pipeline.

\* trace[i] and trace[j] are two consecutive fetches of detail pages: calls
\* of fetcher.get with none between them, the earlier not the first call of
\* the run.
ConsecutiveDetailFetches(i, j) ==
    /\ i < j
    /\ IsGet(trace[i])
    /\ IsGet(trace[j])
    /\ \E h \in 1..(i - 1) : IsGet(trace[h])
    /\ \A k \in (i + 1)..(j - 1) : ~IsGet(trace[k])
DelayedBetween(i, j) ==
    \E k \in (i + 1)..(j - 1) : trace[k] = DelayEvent(settings.delay_seconds)

\* C22: with delay_seconds > 0 in detail-follow mode, run_pipeline sleeps
\* delay_seconds between every two consecutive fetches of detail pages,
\* whether the earlier one returned or raised.
C22_PolitenessDelay ==
    (~list_only_mode /\ settings.delay_seconds > 0)
    => \A i, j \in DOMAIN trace :
            ConsecutiveDetailFetches(i, j) => DelayedBetween(i, j)

\* The descriptor names an item selector or item fields.
ItemPartPresent ==
    HasSelector(target_config.item_selector) \/ target_config.item_fields # <<>>
RunOver == pc \in {"done", "raised"}
\* The keys of the records of a list-only run: the item fields and the one
\* bookkeeping field.
ListOnlyKeys ==
    {target_config.item_fields[i].key : i \in DOMAIN target_config.item_fields}
    \cup {"source_list_url"}
\* No link is followed and no record carries a detail_url that the item
\* fields did not ask for.
NoDetailWork ==
    /\ product_urls = <<>>
    /\ idx = 0
    /\ \A i \in DOMAIN GetUrls : GetUrls[i] = target_config.list_url
    /\ \A n \in DOMAIN records : DictKeys(records[n]) = ListOnlyKeys
\* Every record stands for one detail page whose fetch returned.
RecordsFromDetailPages ==
    /\ records # <<>> => idx >= 1
    /\ Len(records) <= Cardinality({i \in 2..Len(outcomes) : outcomes[i] = "returned"})
    /\ \A n \in DOMAIN records :
            \E i \in 2..Len(GetUrls) :
                /\ outcomes[i] = "returned"
                /\ DictGet(records[n], "detail_url", NoneStr) = GetUrls[i]

\* C23 as stated: a run with an item selector or item fields makes exactly
\* one fetch, of the list page; a detail-follow run takes its records from
\* detail pages only.
C23_ModesExclusiveAsClaimed ==
    /\ (ItemPartPresent /\ RunOver)
            => (GetUrls = <<target_config.list_url>> /\ NoDetailWork)
    /\ ~ItemPartPresent => RecordsFromDetailPages

\* C23: a run with an item selector or item fields makes at most one fetch,
\* of the list page: exactly one when the descriptor is accepted (list_url,
\* item selector and item fields all present, with or without a link
\* selector), none when it is rejected; it follows no link and adds no
\* detail_url.  A detail-follow run takes its records from detail pages only.
C23_ModesExclusive ==
    /\ ItemPartPresent
            => /\ Len(GetUrls) <= 1
               /\ NoDetailWork
               /\ RunOver =>
                    IF /\ Truthy(target_config.list_url)
                       /\ HasSelector(target_config.item_selector)
                       /\ target_config.item_fields # <<>>
                    THEN GetUrls = <<target_config.list_url>>
                    ELSE GetUrls = <<>> /\ exit_code = <<1>>
    /\ ~ItemPartPresent => RecordsFromDetailPages

\* A list-only run whose descriptor also has a link selector and asks for a
\* detail_url field has ended with two records after one fetch.
C23_Witness ==
    /\ pc = "done"
    /\ exit_code = <<0>>
    /\ HasSelector(target_config.item_selector)
    /\ target_config.link_selector = LinkSel
    /\ DictHas(target_config.item_fields, "detail_url")
    /\ Len(records) = 2
    /\ GetUrls = <<target_config.list_url>>

\* rec has the keys of extracted and the injected ones, no others, and
\* every extracted field that is not injected and is not a "*_url" field, or
\* is one with a null value, holds the extracted value.
OnlyBookkeepingAndRewrites(rec, extracted, injected) ==
    /\ DictKeys(rec) = DictKeys(extracted) \cup injected
    /\ \A i \in DOMAIN extracted :
            (/\ extracted[i].key \notin injected
             /\ extracted[i].key \notin UrlFieldNames \/ extracted[i].value = NoneStr)
            => DictGet(rec, extracted[i].key, EmptyStr) = extracted[i].value

\* C24: the record of a detail page has the keys parse_detail returned plus
\* detail_url and source_list_url, the record of an item those parse_items
\* returned plus source_list_url; in both, every field that is not injected
\* and whose name does not end in "_url", and every such "*_url" field whose
\* extracted value is null, has the extracted value; a record is not
\* changed afterwards and is exported as it is.
C24_OnlyBookkeepingAndRewrites ==
    [][/\ DetailRecordStep =>
            OnlyBookkeepingAndRewrites(
                records'[Len(records')],
                ParseDetail(get_result.text, target_config.detail_selectors),
                {"detail_url", "source_list_url"})
       /\ ListRecordsStep =>
            LET items == ParseItems(get_result.text, target_config.item_selector,
                                    target_config.item_fields)
            IN  \A n \in DOMAIN records' :
                    OnlyBookkeepingAndRewrites(records'[n], items[n], {"source_list_url"})
       /\ Len(records') > Len(records) => DetailRecordStep \/ ListRecordsStep
       /\ \A n \in DOMAIN records : n \in DOMAIN records' /\ records'[n] = records[n]
       /\ exported' # exported => exported' = <<records>>
      ]_vars

\* A record in which the relative link of the page is kept as it is under
\* "image_URL", while detail_url and source_list_url hold the injected
\* values and the core field image_url stays null.
C24_Witness ==
    /\ pc = "done"
    /\ exported # <<>>
    /\ \E n \in DOMAIN records :
        /\ DictGet(records[n], "image_URL", NoneStr) = RelLink
        /\ DictGet(records[n], "detail_url", NoneStr) = Url(ExampleHost, <<"product", "1">>)
        /\ DictGet(records[n], "source_list_url", NoneStr) = ListUrl
        /\ DictHas(records[n], "image_url")
        /\ DictGet(records[n], "image_url", EmptyStr) = NoneStr

\* The fetcher.get calls so far: the list page first, then the kept links
\* in their order, at most one call per kept link.
FetchesBounded ==
    /\ Len(GetUrls) <= 1 + Len(product_urls)
    /\ GetUrls # <<>> => GetUrls[1] = target_config.list_url
    /\ \A i \in 2..Len(GetUrls) : GetUrls[i] = ResolvedLinks[i - 1]
\* No fetcher.get call follows the export.
ExportLast ==
    \A i, j \in DOMAIN trace : (i < j /\ trace[i] = ExportEvent) => ~IsGet(trace[j])
\* The running get() call has made as many requests as its attempt counter
\* says, and no more than max_retries (none when max_retries is not
\* positive).
RequestsBounded ==
    get_pc # "idle"
    => /\ Len(Requests) <= (IF fetcher.max_retries > 0 THEN fetcher.max_retries ELSE 0)
       /\ attempt = Len(Requests)

\* C25: a run of run_pipeline that has stopped (no step of it is possible
\* exactly when it is over) has ended with exit status 0 or 1; it calls
\* fetcher.get at most 1 + L times for L kept links, the list page first and
\* the links in their order, exports only after the last fetch, and a get()
\* call makes at most max_retries requests, counted from 1 in every call.
C25_TerminatesBounded ==
    /\ RunOver => (pc = "done" /\ exit_code \in {<<0>>, <<1>>})
    /\ FetchesBounded
    /\ ExportLast
    /\ RequestsBounded

\* The run has returned 1 after the one call fetcher.get(list_url), with
\* the message of a failed list fetch and nothing parsed, reported or
\* exported.
FailedAtListFetch ==
    /\ pc = "done"
    /\ exit_code = <<1>>
    /\ GetUrls = <<target_config.list_url>>
    /\ outcomes = <<"raised">>
    /\ stderr = <<Message("Failed to fetch list page", NoneStr)>>
    /\ records = <<>>
    /\ reports = <<>>
    /\ exported = <<>>

\* C26: run_pipeline builds the fetcher with the max_retries of the
\* settings as it is; with max_retries <= 0 a get() call makes no request and
\* no sleep, never returns, and raises FetchError with status None, and the
\* run, once over, has failed at the fetch of the list page.
C26_NoAttemptsAllowed ==
    (fetcher.built /\ settings.max_retries # <<>>)
    => /\ fetcher.max_retries = settings.max_retries[1]
       /\ fetcher.max_retries <= 0
            => /\ log = <<>>
               /\ get_pc # "returned"
               /\ get_pc = "raised" => get_result = StatusError(get_url, <<>>)
               /\ RunOver => FailedAtListFetch

\* A run with max_retries = 0 has ended at the list fetch.
C26_Witness ==
    /\ settings.max_retries = <<0>>
    /\ fetcher.built
    /\ FailedAtListFetch
    /\ trace = <<GetEvent(ListUrl)>>

----------------------------------------------------------------------------
\* Claims about validate_records (ValidatorSpec)

\* The place of a field name in the order of strings.
Rank(f) == CHOOSE i \in DOMAIN FieldNames : FieldNames[i] = f
KeysSeen == UNION {{records[n][i].key : i \in DOMAIN records[n]} : n \in DOMAIN records}
\* Field f is absent from rec, or null, or the empty string there.
AbsentNullOrEmpty(rec, f) ==
    \A i \in DOMAIN rec : rec[i].key = f => rec[i].value \in {NoneStr, EmptyStr}

\* C21: the summary of validate_records has total_records = the number of
\* records, fields = the keys seen in any record, sorted and without
\* repeats, missing_counts defined exactly on those fields, and
\* missing_counts[f] = the number of records in which f is absent, null or
\* the empty string (so between 0 and total_records); the empty input gives
\* total 0, no fields and an empty missing_counts.
C21_ValidateSummary ==
    (pc = "standalone" /\ reports # <<>>)
    => LET summary == reports[1]
       IN  /\ summary.total_records = Len(records)
           /\ \A i, j \in DOMAIN summary.fields :
                i < j => Rank(summary.fields[i]) < Rank(summary.fields[j])
           /\ {summary.fields[i] : i \in DOMAIN summary.fields} = KeysSeen
           /\ DOMAIN summary.missing_counts = KeysSeen
           /\ \A f \in KeysSeen :
                /\ summary.missing_counts[f] =
                     Cardinality({n \in DOMAIN records : AbsentNullOrEmpty(records[n], f)})
                /\ 0 <= summary.missing_counts[f]
                /\ summary.missing_counts[f] <= summary.total_records
           /\ records = <<>>
                => /\ summary.total_records = 0
                   /\ summary.fields = <<>>
                   /\ DOMAIN summary.missing_counts = {}

\* Two records with the fields inserted in different orders, one field
\* absent, null, empty, blank and an empty list among the values.
C21_Witness ==
    /\ pc = "standalone"
    /\ records = << <<Entry("name", EmptyStr), Entry("image_URL", BlankStr)>>,
                    <<Entry("name", ListValue(<<>>))>> >>
    /\ reports # <<>>
    /\ reports[1].fields = <<"image_URL", "name">>
    /\ reports[1].missing_counts["name"] = 1
    /\ reports[1].missing_counts["image_URL"] = 1

====
